---- MODULE Spec2Model ----
(***************************************************************************)
(* Model of the redfish resource layer of WBfish: the Role and Chassis     *)
(* entities, their fetch (GetRole, GetChassis), commit (Update),           *)
(* collection resolution (ListReferencedRoles, ListReferencedChassis) and  *)
(* the Chassis.Reset action.                                               *)
(*                                                                         *)
(* A byte buffer is a sequence of tokens: one token per whitespace byte,   *)
(* per stray byte, and per complete JSON value (a JSON object carries its  *)
(* members).  The caller is a single thread: every library call blocks     *)
(* until it returns, so one call is in progress at a time.                 *)
(***************************************************************************)
EXTENDS Integers, Sequences, FiniteSets, TLC

\* Bounds of the model.
MaxPad == 1
MaxMembers == 3

----------------------------------------------------------------------------
\* Values

NoErr == "nil"
NoClient == "nil"
NoEntity == [type |-> "nil"]
Clients == {"c1", "c2"}

ErrTimeout == "transport: timeout"
ErrRefused == "transport: connection refused"
TransportErrors == {ErrTimeout, ErrRefused}
ErrRead == "read: unexpected EOF"
ErrUnexpectedEnd == "json: unexpected end of JSON input"
ErrSyntax == "json: invalid character"
ErrNotSupported == "reset type is not supported by this chassis"

WS == [kind |-> "ws"]
JUNK == [kind |-> "junk"]
NullTok == [kind |-> "null"]
Obj(m) == [kind |-> "obj", members |-> m]

RECURSIVE Pad(_)
Pad(n) == IF n = 0 THEN <<>> ELSE <<WS>> \o Pad(n - 1)

\* PrivilegeType and ResetType values used by the model.
LoginPrivilegeType == "Login"
ConfigureSelfPrivilegeType == "ConfigureSelf"
OnResetType == "On"
ForceOffResetType == "ForceOff"
ResetTypes == {OnResetType, ForceOffResetType}

----------------------------------------------------------------------------
\* encoding/json as used by the entities

RECURSIVE SkipSpace(_, _)
SkipSpace(data, i) ==
    IF i <= Len(data) /\ data[i] = WS THEN SkipSpace(data, i + 1) ELSE i

\* The scanner's verdict on a whole buffer: exactly one top-level value,
\* surrounded by nothing but whitespace.
JSONCheckValid(data) ==
    LET start == SkipSpace(data, 1)
    IN  IF start > Len(data) THEN ErrUnexpectedEnd
        ELSE IF data[start].kind \notin {"obj", "null"} THEN ErrSyntax
        ELSE IF SkipSpace(data, start + 1) <= Len(data) THEN ErrSyntax
        ELSE NoErr

\* json.Unmarshal(data, &v) for a v that implements UnmarshalJSON: on valid
\* input the method receives the bytes of the value alone, data[start:end],
\* without the whitespace around it.
JSONUnmarshal(data) ==
    LET err == JSONCheckValid(data)
        start == SkipSpace(data, 1)
    IN  IF err # NoErr THEN [err |-> err, item |-> <<>>]
        ELSE [err |-> NoErr, item |-> SubSeq(data, start, start)]

\* json.Unmarshal(b, &t) for the plain struct t inside UnmarshalJSON: the
\* members the buffer carries; JSON null leaves t at its zero value.
JSONDecodeStruct(b) ==
    LET err == JSONCheckValid(b)
        tok == b[SkipSpace(b, 1)]
    IN  IF err # NoErr THEN [err |-> err, members |-> [k \in {} |-> ""]]
        ELSE IF tok.kind = "null" THEN [err |-> NoErr, members |-> [k \in {} |-> ""]]
        ELSE [err |-> NoErr, members |-> tok.members]

\* A struct field after decoding: the member's value, or the zero value.
Member(m, key, zero) == IF key \in DOMAIN m THEN m[key] ELSE zero

----------------------------------------------------------------------------
\* Role

ZeroRole ==
    [type |-> "Role", Client |-> NoClient, ODataID |-> "",
     AssignedPrivileges |-> <<>>, OemPrivileges |-> <<>>,
     IsPredefined |-> FALSE, rawData |-> <<>>]

\* (role *Role) UnmarshalJSON(b): the receiver is replaced as a whole and
\* rawData is set to b; on error the receiver is left as it was.
RoleUnmarshalJSON(role, b) ==
    LET d == JSONDecodeStruct(b)
    IN  IF d.err # NoErr THEN [err |-> d.err, role |-> role]
        ELSE [err |-> NoErr,
              role |-> [type |-> "Role", Client |-> NoClient,
                        ODataID |-> Member(d.members, "@odata.id", ""),
                        AssignedPrivileges |-> Member(d.members, "AssignedPrivileges", <<>>),
                        OemPrivileges |-> Member(d.members, "OemPrivileges", <<>>),
                        IsPredefined |-> Member(d.members, "IsPredefined", FALSE),
                        rawData |-> b]]

----------------------------------------------------------------------------
\* Chassis

ZeroChassis ==
    [type |-> "Chassis", Client |-> NoClient, ODataID |-> "",
     Manufacturer |-> "", AssetTag |-> "",
     resetTarget |-> "", SupportedResetTypes |-> <<>>, rawData |-> <<>>]

ChassisResetAction(m) == Member(Member(m, "Actions", [k \in {} |-> ""]), "#Chassis.Reset", [k \in {} |-> ""])

\* (chassis *Chassis) UnmarshalJSON(b)
ChassisUnmarshalJSON(chassis, b) ==
    LET d == JSONDecodeStruct(b)
    IN  IF d.err # NoErr THEN [err |-> d.err, chassis |-> chassis]
        ELSE [err |-> NoErr,
              chassis |-> [type |-> "Chassis", Client |-> NoClient,
                           ODataID |-> Member(d.members, "@odata.id", ""),
                           Manufacturer |-> Member(d.members, "Manufacturer", ""),
                           AssetTag |-> Member(d.members, "AssetTag", ""),
                           resetTarget |-> Member(ChassisResetAction(d.members), "Target", ""),
                           SupportedResetTypes |->
                               Member(ChassisResetAction(d.members),
                                      "ResetType@Redfish.AllowableValues", <<>>),
                           rawData |-> b]]

----------------------------------------------------------------------------
\* Transport (common.Client) and the wire

EmptyPayload == [k \in {} |-> ""]

\* One exchange on the wire: the request and what the transport answered.
Exchange(verb, c, uri, payload, resp) ==
    [verb |-> verb, client |-> c, uri |-> uri, payload |-> payload, resp |-> resp]

\* What c.Get can answer: a transport error, a body whose read fails, a body.
GetFailures ==
    {[err |-> e, readErr |-> NoErr, body |-> <<>>] : e \in TransportErrors}
        \cup {[err |-> NoErr, readErr |-> ErrRead, body |-> <<>>]}
GetBody(b) == [err |-> NoErr, readErr |-> NoErr, body |-> b]

\* What c.Patch and c.Post can answer.
SendOutcomes == {[err |-> e] : e \in TransportErrors \cup {NoErr}}

ResetActionDoc(allowed) ==
    "Actions" :> ("#Chassis.Reset" :>
        ("ResetType@Redfish.AllowableValues" :> allowed
            @@ "Target" :> "/Chassis/1/Actions/Chassis.Reset"))

ChassisDocs ==
    { Obj("@odata.id" :> "/Chassis/1" @@ "AssetTag" :> "A1" @@ "Manufacturer" :> "Acme"),
      Obj("@odata.id" :> "/Chassis/1" @@ "AssetTag" :> "A1" @@ "Manufacturer" :> "Acme"
            @@ ResetActionDoc(<<OnResetType>>)),
      Obj("@odata.id" :> "/Chassis/2" @@ "Manufacturer" :> "Acme"
            @@ ResetActionDoc(<<>>)),
      Obj("@odata.id" :> "/Chassis/2" @@ "AssetTag" :> "A2"
            @@ ResetActionDoc(<<OnResetType, ForceOffResetType>>)) }

RoleDocs ==
    { Obj("@odata.id" :> "/Roles/1" @@ "AssignedPrivileges" :> <<LoginPrivilegeType>>
            @@ "IsPredefined" :> TRUE),
      Obj("@odata.id" :> "/Roles/2" @@ "AssignedPrivileges" :> <<LoginPrivilegeType>>
            @@ "OemPrivileges" :> <<"OemClearLog">>),
      Obj("@odata.id" :> "/Roles/3") }

\* Buffers a service can answer with: empty, stray bytes, null, a value
\* followed by stray bytes, a document; each with whitespace around it.
Buffers(docs) ==
    LET cores == {<<>>, <<JUNK>>, <<NullTok>>, <<NullTok, JUNK>>}
                    \cup {<<d>> : d \in docs}
    IN  {Pad(l) \o core \o Pad(t) : l \in 0..MaxPad, t \in 0..MaxPad, core \in cores}

ChassisGetOutcomes == GetFailures \cup {GetBody(b) : b \in Buffers(ChassisDocs)}
RoleGetOutcomes == GetFailures \cup {GetBody(b) : b \in Buffers(RoleDocs)}

----------------------------------------------------------------------------
\* fetch

\* common.Entity.SetClient
SetClient(e, c) == [e EXCEPT !.Client = c]

\* c.Get(uri): the one retrieval of a fetch.
Get(c, uri, resp) == <<Exchange("GET", c, uri, EmptyPayload, resp)>>

\* GetRole(c, uri), given the transport's answer: (entity, err).
GetRole(c, uri, resp) ==
    IF resp.err # NoErr THEN [entity |-> NoEntity, err |-> resp.err, requests |-> Get(c, uri, resp)]
    ELSE IF resp.readErr # NoErr THEN [entity |-> NoEntity, err |-> resp.readErr, requests |-> Get(c, uri, resp)]
    ELSE LET role0 == [ZeroRole EXCEPT !.rawData = resp.body]
             u == JSONUnmarshal(role0.rawData)
             r == RoleUnmarshalJSON(role0, u.item)
         IN  IF u.err # NoErr THEN [entity |-> NoEntity, err |-> u.err, requests |-> Get(c, uri, resp)]
             ELSE IF r.err # NoErr THEN [entity |-> NoEntity, err |-> r.err, requests |-> Get(c, uri, resp)]
             ELSE [entity |-> SetClient(r.role, c), err |-> NoErr, requests |-> Get(c, uri, resp)]

\* GetChassis(c, uri), given the transport's answer: (entity, err).
GetChassis(c, uri, resp) ==
    IF resp.err # NoErr THEN [entity |-> NoEntity, err |-> resp.err, requests |-> Get(c, uri, resp)]
    ELSE IF resp.readErr # NoErr THEN [entity |-> NoEntity, err |-> resp.readErr, requests |-> Get(c, uri, resp)]
    ELSE LET rawData == resp.body
             u == JSONUnmarshal(rawData)
             r == ChassisUnmarshalJSON(ZeroChassis, u.item)
         IN  IF u.err # NoErr THEN [entity |-> NoEntity, err |-> u.err, requests |-> Get(c, uri, resp)]
             ELSE IF r.err # NoErr THEN [entity |-> NoEntity, err |-> r.err, requests |-> Get(c, uri, resp)]
             ELSE [entity |-> SetClient([r.chassis EXCEPT !.rawData = rawData], c),
                   err |-> NoErr, requests |-> Get(c, uri, resp)]

----------------------------------------------------------------------------
\* commit

\* Field access by name on a decoded snapshot: the declared fields of the
\* structure ("type" stands for the Go type and is no field).
HasField(v, name) == name \in (DOMAIN v) \ {"type"}

Range(seq) == {seq[k] : k \in 1..Len(seq)}

\* common.Entity.Update(originalElement, currentElement, allowedUpdates),
\* given what the transport answers to a partial update: for each name of
\* the allow-list whose value differs between the two snapshots, the name
\* and the current value go into the payload; a non-empty payload is sent
\* as one partial update to the entity's own location.
EntityUpdate(e, original, current, allowedUpdates, resp) ==
    LET changed == {name \in Range(allowedUpdates) :
                        /\ HasField(original, name)
                        /\ original[name] # current[name]}
        payload == [name \in changed |-> current[name]]
    IN  IF changed = {} THEN [err |-> NoErr, requests |-> <<>>]
        ELSE [err |-> resp.err,
              requests |-> <<Exchange("PATCH", e.Client, e.ODataID, payload, resp)>>]

RoleReadWriteFields == <<"AssignedPrivileges", "OemPrivileges">>

\* original := new(Role); original.UnmarshalJSON(role.rawData), the error
\* not looked at.
RoleOriginal(role) == RoleUnmarshalJSON(ZeroRole, role.rawData).role

\* (role *Role) Update()
RoleUpdate(role, resp) ==
    EntityUpdate(role, RoleOriginal(role), role, RoleReadWriteFields, resp)

\* An allow-list that names a read-only field.
ChassisReadWriteFieldsWide == <<"AssetTag", "IndicatorLED", "Manufacturer">>

ChassisReadWriteFields == <<"AssetTag", "IndicatorLED">>

\* A commit that forgets to decode the retained bytes.
ChassisOriginalNotDecoded(chassis) == ZeroChassis

\* original := new(Chassis); original.UnmarshalJSON(chassis.rawData), the
\* error not looked at.
ChassisOriginal(chassis) == ChassisUnmarshalJSON(ZeroChassis, chassis.rawData).chassis

\* A commit that swallows the transport's error.
ChassisUpdateErrorDropped(chassis, resp) ==
    [EntityUpdate(chassis, ChassisOriginal(chassis), chassis, ChassisReadWriteFields, resp)
        EXCEPT !.err = NoErr]

\* (chassis *Chassis) Update()
ChassisUpdate(chassis, resp) ==
    EntityUpdate(chassis, ChassisOriginal(chassis), chassis, ChassisReadWriteFields, resp)

----------------------------------------------------------------------------
\* invoke

\* A validity check that fails closed when no list was declared.
ResetValidClosed(chassis, resetType) ==
    \E k \in 1..Len(chassis.SupportedResetTypes) :
        resetType = chassis.SupportedResetTypes[k]

\* The validity check at the head of Reset.
ResetValid(chassis, resetType) ==
    IF Len(chassis.SupportedResetTypes) > 0
    THEN \E k \in 1..Len(chassis.SupportedResetTypes) :
            resetType = chassis.SupportedResetTypes[k]
    ELSE TRUE

\* (chassis *Chassis) Reset(resetType), given the transport's answer.
ChassisReset(chassis, resetType, resp) ==
    IF ~ResetValid(chassis, resetType)
    THEN [err |-> ErrNotSupported, requests |-> <<>>]
    ELSE [err |-> resp.err,
          requests |-> <<Exchange("POST", chassis.Client, chassis.resetTarget,
                                  "ResetType" :> resetType, resp)>>]

----------------------------------------------------------------------------
\* resolveAll

MemberLocations == <<"/Members/1", "/Members/2", "/Members/3", "/Members/4", "/Members/5">>

\* Member-link lists a collection can carry.
Collections ==
    {SubSeq(MemberLocations, 1, n) : n \in 0..MaxMembers}
        \cup {<<MemberLocations[2], MemberLocations[1]>>}

CollectionOutcomes ==
    {[err |-> e, ItemLinks |-> <<>>] : e \in TransportErrors \cup {ErrSyntax}}
        \cup {[err |-> NoErr, ItemLinks |-> l] : l \in Collections}

\* common.GetCollection(c, link), given the transport's answer: one
\* retrieval of the collection, yielding its member links or the error.
GetCollection(c, link, resp) ==
    [err |-> resp.err, ItemLinks |-> resp.ItemLinks,
     requests |-> <<Exchange("GET", c, link, EmptyPayload, resp)>>]

\* What a member's retrieval can answer during a resolution.
RoleMemberOutcomes ==
    {[err |-> ErrTimeout, readErr |-> NoErr, body |-> <<>>], GetBody(<<JUNK>>)}
        \cup {GetBody(<<d>>) : d \in {x \in RoleDocs : "OemPrivileges" \notin DOMAIN x.members}}
ChassisMemberOutcomes ==
    {[err |-> ErrTimeout, readErr |-> NoErr, body |-> <<>>], GetBody(<<JUNK>>)}
        \cup {GetBody(<<d>>) : d \in {x \in ChassisDocs : "AssetTag" \notin DOMAIN x.members}}
        \cup {GetBody(<<NullTok>>)}

\* The guard at the head of ListReferencedRoles; ListReferencedChassis has
\* none.
RolesLinkEmpty(link) == link = ""
ChassisLinkEmpty(link) == FALSE

\* A loop that walks the member links from the far end.
RangeItemBackwards(itemLinks, i) == itemLinks[Len(itemLinks) + 1 - i]

\* The member the range loop visits at position i.
RangeItem(itemLinks, i) == itemLinks[i]

----------------------------------------------------------------------------
\* State

VARIABLES
    entity,   \* the entity the caller holds: NoEntity, a Role or a Chassis
    wire,     \* the exchanges made by the call in progress or just returned
    ret,      \* that call: its name, argument, client and error
    pc,       \* "idle", or the resolver whose member loop is running
    links,    \* the resolver's links.ItemLinks
    i,        \* the position of the resolver's range loop
    result    \* the resolver's result slice, which is what it returns

vars == <<entity, wire, ret, pc, links, i, result>>

Call(op, arg, c, err) ==
    [op |-> op, arg |-> arg, client |-> c, err |-> err]

Init ==
    /\ entity = NoEntity
    /\ wire = <<>>
    /\ ret = Call("none", "", NoClient, NoErr)
    /\ pc = "idle"
    /\ links = <<>>
    /\ i = 0
    /\ result = <<>>

\* No resolver frame is left by a call that is not a resolution.
NoFrame == links' = <<>> /\ i' = 0 /\ result' = <<>> /\ pc' = "idle"

ChassisLocations == {"/Chassis/1"}
RoleLocations == {"/Roles/1"}
AssetTags == {"", "A1", "A2"}
Manufacturers == {"", "Acme", "Other"}
AssignedPrivilegeLists ==
    {<<>>, <<LoginPrivilegeType>>, <<LoginPrivilegeType, ConfigureSelfPrivilegeType>>}
OemPrivilegeLists == {<<>>, <<"OemClearLog">>}

----------------------------------------------------------------------------
\* The caller's steps

\* The caller makes an entity itself, new(Chassis) or new(Role), and gives
\* it a client; nothing was fetched, so rawData is empty.
NewChassis ==
    /\ pc = "idle"
    /\ \E c \in Clients : entity' = SetClient(ZeroChassis, c)
    /\ wire' = <<>>
    /\ ret' = Call("new", "Chassis", NoClient, NoErr)
    /\ NoFrame

NewRole ==
    /\ pc = "idle"
    /\ \E c \in Clients : entity' = SetClient(ZeroRole, c)
    /\ wire' = <<>>
    /\ ret' = Call("new", "Role", NoClient, NoErr)
    /\ NoFrame

\* chassis, err := GetChassis(c, uri)
CallGetChassis ==
    /\ pc = "idle"
    /\ \E c \in Clients, uri \in ChassisLocations, resp \in ChassisGetOutcomes :
        LET r == GetChassis(c, uri, resp)
        IN  /\ entity' = r.entity
            /\ wire' = r.requests
            /\ ret' = Call("GetChassis", uri, c, r.err)
    /\ NoFrame

\* role, err := GetRole(c, uri)
CallGetRole ==
    /\ pc = "idle"
    /\ \E c \in Clients, uri \in RoleLocations, resp \in RoleGetOutcomes :
        LET r == GetRole(c, uri, resp)
        IN  /\ entity' = r.entity
            /\ wire' = r.requests
            /\ ret' = Call("GetRole", uri, c, r.err)
    /\ NoFrame

\* The caller assigns fields of the chassis it holds; wire and ret describe
\* a call only until the caller's next step.
MutateChassis ==
    /\ pc = "idle"
    /\ entity.type = "Chassis"
    /\ \E tag \in AssetTags, mfr \in Manufacturers :
        /\ entity' = [entity EXCEPT !.AssetTag = tag, !.Manufacturer = mfr]
        /\ entity' # entity
    /\ wire' = <<>>
    /\ ret' = Call("none", "", NoClient, NoErr)
    /\ NoFrame

\* The caller assigns fields of the role it holds.
MutateRole ==
    /\ pc = "idle"
    /\ entity.type = "Role"
    /\ \E ap \in AssignedPrivilegeLists, op \in OemPrivilegeLists :
        /\ entity' = [entity EXCEPT !.AssignedPrivileges = ap, !.OemPrivileges = op]
        /\ entity' # entity
    /\ wire' = <<>>
    /\ ret' = Call("none", "", NoClient, NoErr)
    /\ NoFrame

\* The entity goes out of the caller's scope.
Release ==
    /\ pc = "idle"
    /\ entity # NoEntity
    /\ entity' = NoEntity
    /\ wire' = <<>>
    /\ ret' = Call("none", "", NoClient, NoErr)
    /\ NoFrame

\* A commit that takes what it sent as the new baseline.
CallChassisUpdateRefreshing ==
    /\ pc = "idle"
    /\ entity.type = "Chassis"
    /\ \E resp \in SendOutcomes :
        LET r == ChassisUpdate(entity, resp)
        IN  /\ wire' = r.requests
            /\ ret' = Call("Update", "", NoClient, r.err)
            /\ entity' = IF r.err = NoErr /\ r.requests # <<>>
                          THEN [entity EXCEPT !.rawData = <<Obj(r.requests[1].payload)>>]
                          ELSE entity
    /\ NoFrame

\* err := chassis.Update()
CallChassisUpdate ==
    /\ pc = "idle"
    /\ entity.type = "Chassis"
    /\ \E resp \in SendOutcomes :
        LET r == ChassisUpdate(entity, resp)
        IN  /\ wire' = r.requests
            /\ ret' = Call("Update", "", NoClient, r.err)
    /\ UNCHANGED entity
    /\ NoFrame

\* err := role.Update()
CallRoleUpdate ==
    /\ pc = "idle"
    /\ entity.type = "Role"
    /\ \E resp \in SendOutcomes :
        LET r == RoleUpdate(entity, resp)
        IN  /\ wire' = r.requests
            /\ ret' = Call("Update", "", NoClient, r.err)
    /\ UNCHANGED entity
    /\ NoFrame

\* err := chassis.Reset(resetType)
CallChassisReset ==
    /\ pc = "idle"
    /\ entity.type = "Chassis"
    /\ \E resetType \in ResetTypes, resp \in SendOutcomes :
        LET r == ChassisReset(entity, resetType, resp)
        IN  /\ wire' = r.requests
            /\ ret' = Call("Reset", resetType, NoClient, r.err)
    /\ UNCHANGED entity
    /\ NoFrame

----------------------------------------------------------------------------
\* The resolvers, one step per retrieval.  Entities share no state, so the
\* caller is taken to resolve collections while it holds no single entity.

CollectionLinks == {"", "/Collection"}

\* The head of a resolver up to its loop: the guard, then GetCollection.
ListHead(op, linkEmpty, c, link, resp) ==
    IF linkEmpty
    THEN /\ wire' = <<>>
         /\ ret' = Call(op, link, c, NoErr)
         /\ NoFrame
    ELSE LET g == GetCollection(c, link, resp)
         IN  /\ wire' = g.requests
             /\ ret' = Call(op, link, c, g.err)
             /\ result' = <<>>
             /\ IF g.err # NoErr \/ g.ItemLinks = <<>>
                THEN links' = <<>> /\ i' = 0 /\ pc' = "idle"
                ELSE links' = g.ItemLinks /\ i' = 1 /\ pc' = op

\* A loop that drops what it has resolved when a member fails.
ListTurnDiscarding(r) ==
    /\ wire' = wire \o r.requests
    /\ IF r.err # NoErr
       THEN /\ ret' = [ret EXCEPT !.err = r.err]
            /\ pc' = "idle"
            /\ result' = <<>>
            /\ UNCHANGED <<links, i>>
       ELSE /\ result' = Append(result, r.entity)
            /\ UNCHANGED <<ret, links>>
            /\ IF i = Len(links)
               THEN pc' = "idle" /\ i' = i
               ELSE pc' = pc /\ i' = i + 1

\* One turn of a resolver's loop, given the member's fetch: on an error the
\* resolver returns result as it stands together with the error; otherwise
\* the member is appended, and after the last one result is returned.
ListTurn(r) ==
    /\ wire' = wire \o r.requests
    /\ IF r.err # NoErr
       THEN /\ ret' = [ret EXCEPT !.err = r.err]
            /\ pc' = "idle"
            /\ UNCHANGED <<links, i, result>>
       ELSE /\ result' = Append(result, r.entity)
            /\ UNCHANGED <<ret, links>>
            /\ IF i = Len(links)
               THEN pc' = "idle" /\ i' = i
               ELSE pc' = pc /\ i' = i + 1

CallListReferencedRoles ==
    /\ pc = "idle"
    /\ entity = NoEntity
    /\ \E c \in Clients, link \in CollectionLinks, resp \in CollectionOutcomes :
        ListHead("ListReferencedRoles", RolesLinkEmpty(link), c, link, resp)
    /\ UNCHANGED entity

StepListReferencedRoles ==
    /\ pc = "ListReferencedRoles"
    /\ \E resp \in RoleMemberOutcomes :
        ListTurn(GetRole(ret.client, RangeItem(links, i), resp))
    /\ UNCHANGED entity

CallListReferencedChassis ==
    /\ pc = "idle"
    /\ entity = NoEntity
    /\ \E c \in Clients, link \in CollectionLinks, resp \in CollectionOutcomes :
        ListHead("ListReferencedChassis", ChassisLinkEmpty(link), c, link, resp)
    /\ UNCHANGED entity

StepListReferencedChassis ==
    /\ pc = "ListReferencedChassis"
    /\ \E resp \in ChassisMemberOutcomes :
        ListTurn(GetChassis(ret.client, RangeItem(links, i), resp))
    /\ UNCHANGED entity

Next ==
    \/ NewChassis
    \/ NewRole
    \/ CallGetChassis
    \/ CallGetRole
    \/ MutateChassis
    \/ MutateRole
    \/ Release
    \/ CallChassisUpdate
    \/ CallRoleUpdate
    \/ CallChassisReset
    \/ CallListReferencedRoles
    \/ StepListReferencedRoles
    \/ CallListReferencedChassis
    \/ StepListReferencedChassis

Spec == Init /\ [][Next]_vars

----------------------------------------------------------------------------
\* Properties of commit

\* The call that has just returned is a commit / a successful fetch.
Committed == ret.op = "Update"
Fetched == ret.op \in {"GetChassis", "GetRole"} /\ ret.err = NoErr

\* The entity came from a fetch: it retains bytes.
Retained == entity # NoEntity /\ entity.rawData # <<>>

\* The snapshot the retained bytes decode to.
Decoded(e) ==
    IF e.type = "Chassis" THEN ChassisUnmarshalJSON(ZeroChassis, e.rawData)
    ELSE LET r == RoleUnmarshalJSON(ZeroRole, e.rawData)
         IN  [err |-> r.err, chassis |-> r.role]

\* C1: a commit that directly follows a successful fetch, with no field
\* assigned in between, makes no exchange on the wire and returns no error,
\* whatever body the fetch received.
C1_FreshCommitIsNoOp ==
    [][(Fetched /\ ret'.op = "Update") => (wire' = <<>> /\ ret'.err = NoErr)]_vars

\* A commit has returned on an unmutated chassis whose fetched AssetTag is
\* not the zero value.
C1_Witness ==
    /\ Committed /\ Retained /\ entity.type = "Chassis"
    /\ entity.AssetTag = "A1" /\ entity.Manufacturer = "Acme"
    /\ Decoded(entity).chassis.AssetTag = "A1"
    /\ wire = <<>> /\ ret.err = NoErr

\* The writable fields of each resource, and those whose current value is
\* not the one the retained bytes decode to.
Writable(e) ==
    IF e.type = "Chassis" THEN {"AssetTag"}
    ELSE {"AssignedPrivileges", "OemPrivileges"}
ChangedWritable(e) == {k \in Writable(e) : e[k] # Decoded(e).chassis[k]}

AcmeChassisBody ==
    <<Obj("@odata.id" :> "/Chassis/1" @@ "AssetTag" :> "A1" @@ "Manufacturer" :> "Acme")>>

\* C2: after a commit on a fetched entity, the payload sent has exactly the
\* changed writable fields as keys, each with its current value; nothing is
\* sent when there is none; a changed read-only field neither appears nor
\* makes the commit fail.  The chassis fetched as AssetTag A1, Manufacturer
\* Acme and set to A2, Other sends exactly {AssetTag: A2}.
C2_PayloadIsChangedWritable ==
    (Committed /\ Retained) =>
        /\ IF ChangedWritable(entity) = {} THEN wire = <<>>
           ELSE /\ Len(wire) = 1
                /\ wire[1].verb = "PATCH"
                /\ DOMAIN wire[1].payload = ChangedWritable(entity)
                /\ \A k \in ChangedWritable(entity) : wire[1].payload[k] = entity[k]
        /\ ret.err = (IF wire = <<>> THEN NoErr ELSE wire[1].resp.err)
        /\ (entity.rawData = AcmeChassisBody /\ entity.type = "Chassis"
                /\ entity.AssetTag = "A2" /\ entity.Manufacturer = "Other")
            => (Len(wire) = 1 /\ wire[1].payload = ("AssetTag" :> "A2"))

\* The example: both fields set, the commit has succeeded.
C2_Witness ==
    /\ Committed /\ entity.type = "Chassis" /\ entity.rawData = AcmeChassisBody
    /\ entity.AssetTag = "A2" /\ entity.Manufacturer = "Other"
    /\ Len(wire) = 1 /\ wire[1].payload = ("AssetTag" :> "A2") /\ ret.err = NoErr

\* C3: a step in which the caller assigns fields or commits leaves rawData
\* as it was; and a commit that directly follows a successful commit, with
\* no assignment and no fetch in between, sends the same payload to the
\* same location again.
C3_RawDataKept ==
    [][/\ (entity # NoEntity /\ entity' # NoEntity /\ ret'.op \in {"none", "Update"})
            => entity'.rawData = entity.rawData
       /\ (Committed /\ ret.err = NoErr /\ ret'.op = "Update")
            => /\ Len(wire') = Len(wire)
               /\ wire # <<>> =>
                    /\ wire'[1].payload = wire[1].payload
                    /\ wire'[1].uri = wire[1].uri
                    /\ wire'[1].verb = wire[1].verb]_vars

\* A commit has succeeded in sending a changed AssetTag, and the retained
\* bytes still decode to the fetched one.
C3_Witness ==
    /\ Committed /\ Retained /\ entity.type = "Chassis"
    /\ ret.err = NoErr /\ Len(wire) = 1
    /\ entity.AssetTag = "A2" /\ Decoded(entity).chassis.AssetTag = "A1"

\* C4 as claimed: when the retained bytes do not decode, a commit returns
\* the decode error and sends nothing.
C4_DecodeFailureFailsCommit ==
    (Committed /\ Decoded(entity).err # NoErr) =>
        (ret.err = Decoded(entity).err /\ wire = <<>>)

\* The code's original snapshot and diff, decodable bytes or not.
Original(e) == IF e.type = "Chassis" THEN ChassisOriginal(e) ELSE RoleOriginal(e)
Diff(e) == {k \in Writable(e) : e[k] # Original(e)[k]}

\* C5: a commit makes at most one exchange, a partial update to the
\* entity's own location through its client, carrying every field of the
\* diff; its error is then the transport's answer, unchanged; with nothing
\* to send it succeeds.
C5_OneRequestWholeDiff ==
    Committed =>
        /\ Len(wire) <= 1
        /\ wire = <<>> => (ret.err = NoErr /\ Diff(entity) = {})
        /\ wire # <<>> =>
            /\ wire[1].verb = "PATCH"
            /\ wire[1].uri = entity.ODataID
            /\ wire[1].client = entity.Client
            /\ DOMAIN wire[1].payload = Diff(entity)
            /\ wire[1].resp \in SendOutcomes
            /\ ret.err = wire[1].resp.err

\* A commit's partial update was refused by the transport.
C5_Witness ==
    /\ Committed /\ Retained /\ Len(wire) = 1
    /\ wire[1].resp.err = ErrRefused /\ ret.err = ErrRefused

----------------------------------------------------------------------------
\* Properties of fetch

\* C6 as claimed: a fetch makes exactly one retrieval; when the transport,
\* the read or the decoding fails it returns the error and no entity;
\* otherwise it returns an entity whose fields are the wire values, whose
\* rawData is non-empty and is exactly the response body, and whose client
\* is the client of the fetch.
C6_FetchOutcomes ==
    ret.op \in {"GetChassis", "GetRole"} =>
        /\ Len(wire) = 1
        /\ wire[1].verb = "GET" /\ wire[1].uri = ret.arg /\ wire[1].client = ret.client
        /\ LET resp == wire[1].resp
               m == JSONDecodeStruct(resp.body).members
           IN  IF resp.err # NoErr \/ resp.readErr # NoErr
                    \/ JSONCheckValid(resp.body) # NoErr
               THEN ret.err # NoErr /\ entity = NoEntity
               ELSE /\ ret.err = NoErr
                    /\ entity # NoEntity
                    /\ entity.Client = ret.client
                    /\ entity.ODataID = Member(m, "@odata.id", "")
                    /\ ret.op = "GetChassis" =>
                        /\ entity.AssetTag = Member(m, "AssetTag", "")
                        /\ entity.Manufacturer = Member(m, "Manufacturer", "")
                    /\ ret.op = "GetRole" =>
                        /\ entity.AssignedPrivileges = Member(m, "AssignedPrivileges", <<>>)
                        /\ entity.OemPrivileges = Member(m, "OemPrivileges", <<>>)
                    /\ entity.rawData # <<>>
                    /\ entity.rawData = resp.body

----------------------------------------------------------------------------
\* Properties of resolveAll

ListOps == {"ListReferencedRoles", "ListReferencedChassis"}

\* A resolver has returned.
Resolved == ret.op \in ListOps /\ pc = "idle"

\* The entity a member's retrieval yields, by the resolver's own fetch.
MemberFetch(k) ==
    IF ret.op = "ListReferencedRoles"
    THEN GetRole(ret.client, wire[k].uri, wire[k].resp)
    ELSE GetChassis(ret.client, wire[k].uri, wire[k].resp)

\* C7 as claimed: a resolver that returns an error returns no entity.
C7_ErrorDiscardsResult ==
    (Resolved /\ ret.err # NoErr) => result = <<>>

\* C7 amended: a resolver that returns an error after a member's fetch
\* failed returns, with the error, the entities of the members before the
\* failing one, in the collection's order, and not the failing one or any
\* later one; when the collection's own retrieval failed it returns none.
C7_ErrorKeepsResolvedPrefix ==
    (Resolved /\ ret.err # NoErr) =>
        /\ Len(wire) >= 1
        /\ Len(result) = Len(wire) - (IF Len(wire) = 1 THEN 1 ELSE 2)
        /\ \A k \in 1..Len(result) :
            /\ wire[k + 1].uri = links[k]
            /\ result[k] = MemberFetch(k + 1).entity
        /\ Len(wire) > 1 => ret.err = MemberFetch(Len(wire)).err

\* Three members, the second failing: the error and the first member.
C7_Witness ==
    /\ Resolved /\ ret.err # NoErr
    /\ Len(links) = 3 /\ Len(wire) = 3 /\ Len(result) = 1

\* C8 as claimed: a resolver called with the empty location makes no
\* exchange on the wire and returns the empty sequence and no error.
C8_EmptyLinkNoRequest ==
    (ret.op \in ListOps /\ ret.arg = "") =>
        (wire = <<>> /\ result = <<>> /\ ret.err = NoErr /\ pc = "idle")

\* C10: in a resolution the first exchange retrieves the collection, the
\* k-th retrieval after it is of the k-th member the collection lists,
\* every retrieval but the last has succeeded, and a resolver that returns
\* without error returns one entity per member, the k-th being the one the
\* k-th member's retrieval yielded.
C10_MembersInListOrder ==
    (ret.op \in ListOps /\ wire # <<>>) =>
        /\ wire[1].verb = "GET" /\ wire[1].uri = ret.arg
        /\ \A k \in 2..Len(wire) :
            /\ wire[k].verb = "GET"
            /\ k - 1 <= Len(links)
            /\ wire[k].uri = links[k - 1]
            /\ k < Len(wire) => MemberFetch(k).err = NoErr
        /\ (Resolved /\ ret.err = NoErr) =>
            /\ Len(result) = Len(links)
            /\ Len(wire) = Len(links) + 1
            /\ \A k \in 1..Len(result) : result[k] = MemberFetch(k + 1).entity
        /\ pc # "idle" => (i = Len(wire) /\ Len(result) = i - 1)

\* A resolution of two members listed out of name order has returned both.
C10_Witness ==
    /\ Resolved /\ ret.err = NoErr
    /\ links = <<MemberLocations[2], MemberLocations[1]>>
    /\ Len(result) = 2 /\ result[1] # result[2]

----------------------------------------------------------------------------
\* Properties of invoke

\* C9: a Reset returns the validation error, having sent nothing, exactly
\* when the chassis declares a non-empty list of reset types that lacks the
\* requested one; otherwise it makes one POST to the reset target with the
\* requested value as ResetType and returns the transport's answer.
C9_ResetValidation ==
    ret.op = "Reset" =>
        LET declared == entity.SupportedResetTypes
            refused == Len(declared) > 0 /\ ret.arg \notin Range(declared)
        IN  /\ refused => (ret.err = ErrNotSupported /\ wire = <<>>)
            /\ ~refused =>
                /\ Len(wire) = 1
                /\ wire[1].verb = "POST"
                /\ wire[1].uri = entity.resetTarget
                /\ wire[1].client = entity.Client
                /\ wire[1].payload = ("ResetType" :> ret.arg)
                /\ ret.err = wire[1].resp.err
                /\ ret.err # ErrNotSupported

\* A chassis that declares no list has been reset: the request went out.
C9_Witness ==
    /\ ret.op = "Reset" /\ Retained
    /\ entity.SupportedResetTypes = <<>>
    /\ Len(wire) = 1 /\ ret.err = NoErr

----------------------------------------------------------------------------
\* Properties of the allow-lists

\* The fields of the embedded common.Entity that the resources use.
EntityFields == {"ODataID", "ID", "Name", "Client"}

\* The exported fields the Role structure declares, promoted ones included.
RoleExportedFields ==
    EntityFields \cup
        {"ODataContext", "ODataEtag", "ODataType", "AssignedPrivileges",
         "Description", "IsPredefined", "OemPrivileges", "RoleID"}

\* The exported fields the Chassis structure declares, promoted ones
\* included; thermal, power, networkAdapters, computerSystems,
\* resourceBlocks, managedBy, resetTarget and rawData are unexported.
ChassisExportedFields ==
    EntityFields \cup
        {"ChassisType", "Manufacturer", "Model", "SKU", "SerialNumber", "Version",
         "PartNumber", "AssetTag", "Status", "SupportedResetTypes"}

ExportedFields(e) ==
    IF e.type = "Chassis" THEN ChassisExportedFields ELSE RoleExportedFields

\* The allow-list the entity's Update hands to the diff.
ReadWriteFields(e) ==
    IF e.type = "Chassis" THEN ChassisReadWriteFields ELSE RoleReadWriteFields

\* C11 as claimed: whenever an Update has run, every name of the allow-list
\* it passed is a declared, exported field of the entity's structure.
C11_AllowListNamesDeclaredFields ==
    Committed => \A name \in Range(ReadWriteFields(entity)) : name \in ExportedFields(entity)

====
